---- MODULE Spec2Model ----
(***************************************************************************)
(* The entry points of chat_exporter (chat_exporter/chat_exporter.py):     *)
(* quick_export, export, raw_export, quick_link and link, run as           *)
(* coroutines on one shared channel handle.  Every coroutine is cut at     *)
(* its awaits; the code between two awaits is one atomic step.             *)
(*                                                                         *)
(* Python values: an optional value (an argument that may be left out, or  *)
(* a value that may be None) is a sequence of length at most one, <<>>     *)
(* for None / not passed and <<v>> for v.  A string of HTML is a sequence  *)
(* of elements, <<>> being the empty string.                               *)
(***************************************************************************)
EXTENDS Integers, Sequences, FiniteSets, TLC

VARIABLES channel, pc, kind, args, transcript, result, sent, entry

vars == <<channel, pc, kind, args, transcript, result, sent, entry>>

\* ---------------------------------------------------------------- bounds

\* Messages in the channel before any call starts: 0..MaxMsgs.
MaxMsgs == 4
\* Largest limit a caller passes to export.
MaxLimit == 3
\* Messages the message source hands out per page.
PageSize == 2

\* The two coroutines that may be in flight at once.
Calls == {"c1", "c2"}

None == <<>>
Some(v) == <<v>>

\* ------------------------------------------------------- the environment

ChannelName == "general"
Guild0 == "g0"
Guilds == {"g1", "g2"}
Urls == {"u1", "u2"}

\* Attachment lists of the messages handed to quick_link and link.
AttachmentLists == {<<>>, <<"u1">>, <<"u1", "u2">>, <<"u2", "u1">>}

\* Message lists handed to raw_export (ids double as timestamps).
RawLists == {<<>>, <<1>>, <<2, 1>>, <<3, 1, 2>>, <<2, 2>>}

\* Keyword options a caller may pass to export / raw_export: none of them,
\* or each of them with a value other than the default.
NoOptions ==
    [tz_info |-> None, military_time |-> None, fancy_times |-> None,
     support_dev |-> None, attachment_handler |-> None, bot |-> None]

OptionChoices ==
    { NoOptions,
      [tz_info |-> Some("Europe/Berlin"), military_time |-> Some(FALSE),
       fancy_times |-> Some(FALSE), support_dev |-> Some(FALSE),
       attachment_handler |-> Some("local_file_host"), bot |-> Some("bot")],
      [NoOptions EXCEPT !.bot = Some("bot")] }

\* before/after bounds a caller may pass to export.
WindowChoices ==
    { [before |-> Some(3), after |-> None],
      [before |-> None, after |-> Some(1)] }

GuildChoices == {None} \cup {Some(g) : g \in Guilds}
LimitChoices == {None} \cup {Some(k) : k \in 0..MaxLimit}

\* --------------------------------------------------------------- helpers

Min(a, b) == IF a <= b THEN a ELSE b

Reverse(s) == [i \in 1..Len(s) |-> s[Len(s) + 1 - i]]

\* The value of a keyword parameter: the default when it was not passed.
Param(a, default) == IF a = None THEN default ELSE a[1]

\* ---------------------------------------- chat_exporter.py: pure pieces

\* Parameter defaults of export(...) and raw_export(...).
export_defaults ==
    [tz_info |-> "UTC", military_time |-> TRUE, fancy_times |-> TRUE,
     support_dev |-> TRUE]


\* A bug: raw_export's fancy_times default differs as well.
raw_export_defaults_static ==
    [tz_info |-> "UTC", military_time |-> FALSE, fancy_times |-> FALSE,
     support_dev |-> TRUE]

raw_export_defaults ==
    [tz_info |-> "UTC", military_time |-> FALSE, fancy_times |-> TRUE,
     support_dev |-> TRUE]

\* "if guild: channel.guild = guild": the channel handle after the entry
\* point's first statement.
GuildOverride(ch, guild) ==
    IF guild # None THEN [ch EXCEPT !.guild = guild[1]] ELSE ch

\* The Transcript(...) each entry point constructs.  The channel is passed
\* by reference: the Transcript holds the handle, not a copy of its fields.
quick_export_Transcript(a) ==
    [limit |-> None, messages |-> None, pytz_timezone |-> "UTC",
     military_time |-> TRUE, fancy_times |-> TRUE, before |-> None,
     after |-> None, support_dev |-> TRUE, bot |-> a.bot,
     attachment_handler |-> None]


\* A bug: the caller's limit is not passed on.
export_Transcript_unlimited(a) ==
    [limit |-> None, messages |-> None,
     pytz_timezone |-> Param(a.tz_info, export_defaults.tz_info),
     military_time |-> Param(a.military_time, export_defaults.military_time),
     fancy_times |-> Param(a.fancy_times, export_defaults.fancy_times),
     before |-> a.before, after |-> a.after,
     support_dev |-> Param(a.support_dev, export_defaults.support_dev),
     bot |-> a.bot, attachment_handler |-> a.attachment_handler]

export_Transcript(a) ==
    [limit |-> a.limit, messages |-> None,
     pytz_timezone |-> Param(a.tz_info, export_defaults.tz_info),
     military_time |-> Param(a.military_time, export_defaults.military_time),
     fancy_times |-> Param(a.fancy_times, export_defaults.fancy_times),
     before |-> a.before, after |-> a.after,
     support_dev |-> Param(a.support_dev, export_defaults.support_dev),
     bot |-> a.bot, attachment_handler |-> a.attachment_handler]


\* A bug: the caller's list is not passed on.
raw_export_Transcript_fetching(a) ==
    [limit |-> None, messages |-> None,
     pytz_timezone |-> Param(a.tz_info, raw_export_defaults.tz_info),
     military_time |-> Param(a.military_time, raw_export_defaults.military_time),
     fancy_times |-> Param(a.fancy_times, raw_export_defaults.fancy_times),
     before |-> None, after |-> None,
     support_dev |-> Param(a.support_dev, raw_export_defaults.support_dev),
     bot |-> a.bot, attachment_handler |-> a.attachment_handler]

raw_export_Transcript(a) ==
    [limit |-> None, messages |-> a.messages,
     pytz_timezone |-> Param(a.tz_info, raw_export_defaults.tz_info),
     military_time |-> Param(a.military_time, raw_export_defaults.military_time),
     fancy_times |-> Param(a.fancy_times, raw_export_defaults.fancy_times),
     before |-> None, after |-> None,
     support_dev |-> Param(a.support_dev, raw_export_defaults.support_dev),
     bot |-> a.bot, attachment_handler |-> a.attachment_handler]

\* The viewer prefix of quick_link and link.
ViewerPrefix == "https://mahto.id/chat-exporter?url="

\* A bug: the last attachment is taken, not the first.
link_url_last(message) ==
    ViewerPrefix \o message.attachments[Len(message.attachments)]

\* link(message): the prefix followed by message.attachments[0].url.
link_url(message) == ViewerPrefix \o message.attachments[1]

\* The embed and file quick_export sends with a non-empty transcript.
quick_export_embed(ch) ==
    [description |-> "**Transcript Name:** transcript-" \o ch.name \o "\n\n",
     colour |-> "blurple"]

quick_export_file(ch, html) ==
    [filename |-> "transcript-" \o ch.name \o ".html", content |-> html]

\* The names quick_link's body can resolve: its parameters and the module's
\* globals (imports and the five functions).
quick_link_params == {"channel", "guild"}

ModuleGlobals ==
    {"datetime", "io", "List", "Optional", "Transcript", "discord",
     "AttachmentHandler", "AttachmentToLocalFileHostHandler",
     "AttachmentToDiscordChannelHandler", "quick_export", "export",
     "raw_export", "quick_link", "link"}

\* The embed quick_link builds from the name `message`.
quick_link_embed(message) ==
    [title |-> "Transcript Link",
     description |-> "[Click here to view the transcript]("
                     \o ViewerPrefix \o message.attachments[1] \o ")",
     colour |-> "blurple"]

\* A bug: the error is swallowed and an empty transcript returned.
OnBuildError_swallowed(k, err) == [pc |-> "done", exc |-> "none", ret |-> Some(<<>>)]

\* What reaches the caller when the awaited Transcript(...).export() raises:
\* no entry point wraps the await in a try, so the call ends with the error.
OnBuildError(k, err) == [pc |-> "raised", exc |-> err, ret |-> None]

\* A bug: the test for an empty transcript is left out.
quick_export_after_build_unchecked(html) == "send"

\* quick_export after the build: "if not transcript: return", else on to
\* channel.send.
quick_export_after_build(html) == IF html = <<>> THEN "done" ELSE "send"

\* A bug: the send is repeated.
quick_export_after_send_again == "send"

\* quick_export after channel.send returned: the handle is returned.
quick_export_after_send == "done"

\* ------------------------------------- the transcript builder (spec.md)

\* The messages of the source within the before/after bounds, oldest first.
Window(history, before, after) ==
    SelectSeq(history, LAMBDA m : /\ (before = None \/ m < before[1])
                                  /\ (after = None \/ m > after[1]))

\* fetchPage: the n most recent messages within the bounds, newest first.
FetchPage(history, before, after, n) ==
    LET w == Window(history, before, after)
        k == Min(n, Len(w))
    IN  Reverse(SubSeq(w, Len(w) - k + 1, Len(w)))

\* Page backward from the most recent message until limit messages are
\* collected or the source is exhausted.  acc is newest first.
RECURSIVE FetchLoop(_, _, _, _, _)
FetchLoop(history, before, after, limit, acc) ==
    LET want == IF limit = None THEN PageSize
                ELSE Min(PageSize, limit[1] - Len(acc))
        page == FetchPage(history, before, after, want)
    IN  IF want <= 0 \/ page = <<>> THEN acc
        ELSE FetchLoop(history, Some(page[Len(page)]), after, limit,
                       acc \o page)

\* The messages a build works on, in final order: the supplied list as it
\* is, or the fetched messages oldest first.
Collected(t, history) ==
    IF t.messages # None THEN t.messages[1]
    ELSE Reverse(FetchLoop(history, t.before, t.after, t.limit, <<>>))

\* Where Transcript.export() first suspends: at the fetch, unless a list
\* was supplied.
TranscriptFirstAwait(t) == IF t.messages = None THEN "fetch" ELSE "build"

\* The document: header, one block per message, footer.  The header reads
\* the channel handle when the document is assembled.
Document(ch, t, msgs) ==
    <<[tag |-> "header", channel |-> ch.name, guild |-> ch.guild,
       timezone |-> t.pytz_timezone, military_time |-> t.military_time,
       fancy_times |-> t.fancy_times]>>
    \o [i \in 1..Len(msgs) |-> [tag |-> "message", id |-> msgs[i]]]
    \o <<[tag |-> "footer", count |-> Len(msgs),
          support_dev |-> t.support_dev]>>

\* The ids of the message blocks of a document, in document order.
BlockIds(html) ==
    LET b == SelectSeq(html, LAMBDA e : e.tag = "message")
    IN  [i \in 1..Len(b) |-> b[i].id]

HeaderOf(html) == html[1]

\* ------------------------------------------------------------------ state

\* The arguments of a call: what the caller passed, None where it passed
\* nothing.
Args(guild, limit, w, messages, message, o) ==
    [guild |-> guild, limit |-> limit, before |-> w.before,
     after |-> w.after, messages |-> messages, message |-> message,
     tz_info |-> o.tz_info, military_time |-> o.military_time,
     fancy_times |-> o.fancy_times, support_dev |-> o.support_dev,
     attachment_handler |-> o.attachment_handler, bot |-> o.bot]

NoWindow == [before |-> None, after |-> None]

NoArgs == Args(None, None, NoWindow, None, None, NoOptions)

NoResult == [ret |-> None, exc |-> "none", builds |-> 0, pending |-> None]

Init ==
    /\ channel \in {[name |-> ChannelName, guild |-> Guild0,
                     history |-> [i \in 1..n |-> i]] : n \in 0..MaxMsgs}
    /\ pc = [c \in Calls |-> "idle"]
    /\ kind = [c \in Calls |-> "none"]
    /\ args = [c \in Calls |-> NoArgs]
    /\ transcript = [c \in Calls |-> None]
    /\ result = [c \in Calls |-> NoResult]
    /\ sent = [c \in Calls |-> <<>>]
    /\ entry = [c \in Calls |-> None]

\* The Transcript of call c, once constructed.
T(c) == transcript[c][1]

\* Lines shared by the three export entry points: the guild override, the
\* construction of the Transcript and the call of its export() up to the
\* first await.
StartBuild(c, k, a, t) ==
    /\ kind' = [kind EXCEPT ![c] = k]
    /\ args' = [args EXCEPT ![c] = a]
    /\ entry' = [entry EXCEPT ![c] = Some(channel)]
    /\ channel' = GuildOverride(channel, a.guild)
    /\ transcript' = [transcript EXCEPT ![c] =
           Some([config |-> t, error |-> "none", source |-> None,
                 collected |-> None, html |-> None])]
    /\ result' = [result EXCEPT ![c].builds = @ + 1]
    /\ pc' = [pc EXCEPT ![c] = TranscriptFirstAwait(t)]
    /\ UNCHANGED sent

\* The calls the callers make.  Each set varies some arguments and leaves
\* the others out.
quick_export_calls ==
    {Args(g, None, NoWindow, None, None, NoOptions) : g \in GuildChoices}
    \cup {Args(None, None, NoWindow, None, None,
               [NoOptions EXCEPT !.bot = Some("bot")])}

export_calls ==
    {Args(None, l, NoWindow, None, None, NoOptions) : l \in LimitChoices}
    \cup {Args(g, None, NoWindow, None, None, o) :
              g \in GuildChoices, o \in OptionChoices}
    \cup {Args(None, l, w, None, None, NoOptions) :
              l \in {None, Some(1)}, w \in WindowChoices}

raw_export_calls ==
    {Args(None, None, NoWindow, Some(m), None, NoOptions) : m \in RawLists}
    \cup {Args(g, None, NoWindow, Some(<<2, 1>>), None, o) :
              g \in GuildChoices, o \in OptionChoices}

quick_export(c) ==
    \E a \in quick_export_calls :
        /\ pc[c] = "idle"
        /\ StartBuild(c, "quick_export", a, quick_export_Transcript(a))

export(c) ==
    \E a \in export_calls :
        /\ pc[c] = "idle"
        /\ StartBuild(c, "export", a, export_Transcript(a))

raw_export(c) ==
    \E a \in raw_export_calls :
        /\ pc[c] = "idle"
        /\ StartBuild(c, "raw_export", a, raw_export_Transcript(a))

\* The fetch of the build completes: the messages are collected.
TranscriptFetch(c) ==
    /\ pc[c] = "fetch"
    /\ transcript' = [transcript EXCEPT ![c] =
           Some([T(c) EXCEPT !.source = Some(channel.history),
                             !.collected = Some(Collected(T(c).config,
                                                          channel.history))])]
    /\ pc' = [pc EXCEPT ![c] = "build"]
    /\ UNCHANGED <<channel, kind, args, result, sent, entry>>

\* The fetch of the build fails: FetchError leaves Transcript.export() and
\* arrives at the entry point's await.
TranscriptFetchError(c) ==
    /\ pc[c] = "fetch"
    /\ LET o == OnBuildError(kind[c], "FetchError")
       IN  /\ pc' = [pc EXCEPT ![c] = o.pc]
           /\ result' = [result EXCEPT ![c].exc = o.exc, ![c].ret = o.ret]
    /\ transcript' = [transcript EXCEPT ![c] =
           Some([T(c) EXCEPT !.error = "FetchError"])]
    /\ UNCHANGED <<channel, kind, args, sent, entry>>

\* The build has produced `html`; the entry point goes on to its return
\* (export, raw_export) or to "if not transcript" and channel.send.
Finish(c, msgs, html) ==
    /\ transcript' = [transcript EXCEPT ![c] =
           Some([T(c) EXCEPT !.collected = Some(msgs), !.html = Some(html)])]
    /\ IF kind[c] = "quick_export"
       THEN /\ pc' = [pc EXCEPT ![c] = quick_export_after_build(html)]
            /\ result' = [result EXCEPT ![c].pending =
                   IF quick_export_after_build(html) = "send"
                   THEN Some([embed |-> quick_export_embed(channel),
                              file |-> quick_export_file(channel, html)])
                   ELSE None]
       ELSE /\ pc' = [pc EXCEPT ![c] = "done"]
            /\ result' = [result EXCEPT ![c].ret = Some(html)]
    /\ UNCHANGED <<channel, kind, args, sent, entry>>

\* The messages the build of call c works on.
BuildMessages(c) ==
    IF T(c).collected # None THEN T(c).collected[1]
    ELSE Collected(T(c).config, channel.history)

\* The build assembles the document from the collected messages.
TranscriptBuild(c) ==
    /\ pc[c] = "build"
    /\ Finish(c, BuildMessages(c),
              Document(channel, T(c).config, BuildMessages(c)))

\* Transcript.html is a str; nothing in chat_exporter.py makes it non-empty,
\* and quick_export tests for the empty one.
TranscriptBuildEmpty(c) ==
    /\ pc[c] = "build"
    /\ Finish(c, BuildMessages(c), <<>>)

\* channel.send(embed=..., file=...) of quick_export: the message appears
\* in the channel and its handle is returned.
channel_send(c) ==
    /\ pc[c] = "send"
    /\ LET id == Len(channel.history) + 1
       IN  /\ channel' = [channel EXCEPT !.history = Append(@, id)]
           /\ sent' = [sent EXCEPT ![c] = Append(@,
                  [id |-> id, embed |-> result[c].pending[1].embed,
                   file |-> result[c].pending[1].file])]
           /\ result' = [result EXCEPT ![c].ret = Some(id)]
    /\ pc' = [pc EXCEPT ![c] = quick_export_after_send]
    /\ UNCHANGED <<kind, args, transcript, entry>>

\* quick_link(channel, guild=None): the body reads the name `message`,
\* which is neither a parameter nor a global of the module, so building
\* the embed raises NameError before channel.send is reached.
quick_link(c) ==
    \E att \in AttachmentLists :
        /\ pc[c] = "idle"
        /\ "message" \notin quick_link_params \cup ModuleGlobals
        /\ kind' = [kind EXCEPT ![c] = "quick_link"]
        /\ args' = [args EXCEPT ![c] =
               Args(Some([attachments |-> att]), None, NoWindow, None, None,
                    NoOptions)]
        /\ entry' = [entry EXCEPT ![c] = Some(channel)]
        /\ pc' = [pc EXCEPT ![c] = "raised"]
        /\ result' = [result EXCEPT ![c].exc = "NameError"]
        /\ UNCHANGED <<channel, transcript, sent>>

\* link(message): no await in the body, one step.
link(c) ==
    \E att \in AttachmentLists :
        LET message == [attachments |-> att]
        IN  /\ pc[c] = "idle"
            /\ kind' = [kind EXCEPT ![c] = "link"]
            /\ args' = [args EXCEPT ![c] =
                   Args(None, None, NoWindow, None, Some(message), NoOptions)]
            /\ entry' = [entry EXCEPT ![c] = Some(channel)]
            /\ IF Len(message.attachments) = 0
               THEN /\ pc' = [pc EXCEPT ![c] = "raised"]
                    /\ result' = [result EXCEPT ![c].exc = "IndexError"]
               ELSE /\ pc' = [pc EXCEPT ![c] = "done"]
                    /\ result' = [result EXCEPT
                           ![c].ret = Some(link_url(message))]
            /\ UNCHANGED <<channel, transcript, sent>>

Next ==
    \E c \in Calls :
        \/ quick_export(c)
        \/ export(c)
        \/ raw_export(c)
        \/ TranscriptFetch(c)
        \/ TranscriptFetchError(c)
        \/ TranscriptBuild(c)
        \/ channel_send(c)
        \/ quick_link(c)
        \/ link(c)

Spec == Init /\ [][Next]_vars

\* The same program with the builder's output taken as chat_exporter.py
\* sees it: any str, the empty one included.
NextAnyHtml == Next \/ \E c \in Calls : TranscriptBuildEmpty(c)

SpecAnyHtml == Init /\ [][NextAnyHtml]_vars

\* ----------------------------------------------------------------- claims

Range(s) == {s[i] : i \in 1..Len(s)}

Exports == {"quick_export", "export", "raw_export"}

\* C1: a finished quick_export that built a non-empty transcript has posted
\* exactly one message to the exported channel, an embed plus the file
\* transcript-<channel name>.html holding the HTML, and returned that
\* message's handle; one that built an empty transcript has posted nothing
\* and returned None.
C1_QuickExportResult ==
    \A c \in Calls :
        (kind[c] = "quick_export" /\ pc[c] = "done") =>
            LET html == T(c).html[1]
            IN  IF html # <<>>
                THEN /\ Len(sent[c]) = 1
                     /\ sent[c][1].file =
                            [filename |-> "transcript-" \o entry[c][1].name
                                          \o ".html",
                             content |-> html]
                     /\ sent[c][1].embed.description =
                            "**Transcript Name:** transcript-"
                            \o entry[c][1].name \o "\n\n"
                     /\ Cardinality({i \in 1..Len(channel.history) :
                            channel.history[i] = sent[c][1].id}) = 1
                     /\ result[c].ret = Some(sent[c][1].id)
                ELSE /\ sent[c] = <<>>
                     /\ result[c].ret = None

C1_Witness ==
    \E c, d \in Calls :
        /\ kind[c] = "quick_export" /\ pc[c] = "done"
        /\ T(c).html[1] # <<>> /\ Len(sent[c]) = 1
        /\ kind[d] = "quick_export" /\ pc[d] = "done"
        /\ T(d).html[1] = <<>> /\ result[d].ret = None

\* C2: a fetch error inside the build ends the call with that error: the
\* build was invoked once, nothing was returned, no HTML was produced and
\* nothing was posted; and no call invokes the build more than once.
C2_FetchErrorFatal ==
    \A c \in Calls :
        /\ result[c].builds <= 1
        /\ (kind[c] \in Exports => result[c].builds = 1)
        /\ (transcript[c] # None /\ T(c).error = "FetchError") =>
               /\ pc[c] = "raised"
               /\ result[c].exc = "FetchError"
               /\ result[c].ret = None
               /\ T(c).html = None
               /\ sent[c] = <<>>

C2_Witness ==
    \E c, d \in Calls :
        /\ kind[c] = "quick_export" /\ T(c).error = "FetchError"
        /\ pc[c] = "raised" /\ sent[c] = <<>>
        /\ kind[d] = "export" /\ T(d).error = "FetchError"
        /\ pc[d] = "raised"

\* C10: a quick_export posts at most once, only after its build has
\* produced the HTML, and has nothing left to do once it has posted; the
\* posted message is not among the messages the call exported.
C10_PostAfterBuild ==
    \A c \in Calls :
        kind[c] = "quick_export" =>
            /\ Len(sent[c]) <= 1
            /\ sent[c] # <<>> =>
                   /\ pc[c] = "done"
                   /\ T(c).html # None
                   /\ sent[c][1].file.content = T(c).html[1]
                   /\ sent[c][1].id \notin Range(T(c).collected[1])
                   /\ sent[c][1].id \notin Range(BlockIds(T(c).html[1]))

C10_Witness ==
    \E c \in Calls :
        /\ kind[c] = "quick_export" /\ pc[c] = "done"
        /\ Len(sent[c]) = 1
        /\ Len(T(c).collected[1]) >= 2
        /\ Range(BlockIds(T(c).html[1])) = Range(T(c).collected[1])

\* The guild call c was given: the one it passed, else the one the channel
\* referred to when the call began.
GivenGuild(c) ==
    IF args[c].guild # None THEN args[c].guild[1] ELSE entry[c][1].guild

\* C3: the document of every export call names the guild that call was
\* given and carries that call's own options.
C3_NoCrossCallState ==
    \A c \in Calls :
        (kind[c] \in Exports /\ T(c).html # None /\ T(c).html[1] # <<>>) =>
            LET h == HeaderOf(T(c).html[1])
            IN  /\ h.guild = GivenGuild(c)
                /\ h.timezone = T(c).config.pytz_timezone
                /\ h.military_time = T(c).config.military_time
                /\ h.fancy_times = T(c).config.fancy_times

\* C4: a quick_link call given a message with at least one attachment
\* ends having posted exactly one message whose embed links to the viewer
\* URL of the first attachment, and returns that message's handle.
C4_QuickLinkPosts ==
    \A c \in Calls :
        (/\ kind[c] = "quick_link"
         /\ pc[c] \in {"done", "raised"}
         /\ Len(args[c].guild[1].attachments) >= 1) =>
            /\ pc[c] = "done"
            /\ Len(sent[c]) = 1
            /\ sent[c][1].embed = quick_link_embed(args[c].guild[1])
            /\ result[c].ret = Some(sent[c][1].id)

\* C5: link, given a message with at least one attachment, returns the
\* viewer prefix followed by the first attachment's URL, and the step
\* leaves the channel and everything posted as they were.
C5_LinkUrl ==
    [][\A c \in Calls :
          (pc[c] = "idle" /\ kind'[c] = "link") =>
              /\ channel' = channel
              /\ sent' = sent
              /\ LET att == args'[c].message[1].attachments
                 IN  Len(att) >= 1 =>
                         /\ pc'[c] = "done"
                         /\ result'[c].ret =
                                Some("https://mahto.id/chat-exporter?url="
                                     \o att[1])]_vars

C5_Witness ==
    \E c \in Calls :
        /\ kind[c] = "link" /\ pc[c] = "done"
        /\ args[c].message[1].attachments = <<"u2", "u1">>
        /\ result[c].ret = Some("https://mahto.id/chat-exporter?url=u2")

\* C6: export with limit k and no before/after bound, on a source of n
\* messages, returns min(k, n) message blocks, the most recent messages of
\* the source, oldest first; the Transcript is given the caller's limit.
C6_ExportLimit ==
    \A c \in Calls :
        (/\ kind[c] = "export" /\ pc[c] = "done"
         /\ args[c].limit # None
         /\ args[c].before = None /\ args[c].after = None) =>
            LET src == T(c).source[1]
                n == Len(src)
                m == Min(args[c].limit[1], n)
            IN  /\ T(c).config.limit = args[c].limit
                /\ Len(BlockIds(T(c).html[1])) = m
                /\ BlockIds(T(c).html[1]) = SubSeq(src, n - m + 1, n)

C6_Witness ==
    \E c \in Calls :
        /\ kind[c] = "export" /\ pc[c] = "done"
        /\ args[c].limit = Some(3)
        /\ T(c).source[1] = <<1, 2, 3, 4>>
        /\ BlockIds(T(c).html[1]) = <<2, 3, 4>>

\* C7: raw_export never fetches, passes no limit and no before/after
\* bound, and its message blocks are the supplied list, in the list's
\* order.
C7_RawExportOrder ==
    \A c \in Calls :
        kind[c] = "raw_export" =>
            /\ pc[c] # "fetch"
            /\ T(c).source = None
            /\ T(c).error = "none"
            /\ T(c).config.limit = None
            /\ T(c).config.before = None
            /\ T(c).config.after = None
            /\ pc[c] = "done" =>
                   BlockIds(T(c).html[1]) = args[c].messages[1]

C7_Witness ==
    \E c \in Calls :
        /\ kind[c] = "raw_export" /\ pc[c] = "done"
        /\ args[c].messages = Some(<<3, 1, 2>>)
        /\ BlockIds(T(c).html[1]) = <<3, 1, 2>>

\* C8: when an export or raw_export call has returned and no other call
\* has run, the channel handle is as it was when the call began and
\* nothing has been posted.
C8_ExportsReadOnly ==
    \A c \in Calls :
        (/\ kind[c] \in {"export", "raw_export"}
         /\ pc[c] = "done"
         /\ \A d \in Calls \ {c} : pc[d] = "idle") =>
            /\ channel = entry[c][1]
            /\ sent[c] = <<>>

\* Whether call c left every option at its default.
Defaulted(c) ==
    /\ args[c].tz_info = None
    /\ args[c].military_time = None
    /\ args[c].fancy_times = None
    /\ args[c].support_dev = None
    /\ args[c].attachment_handler = None
    /\ args[c].limit = None
    /\ args[c].before = None
    /\ args[c].after = None

\* The options of a Transcript other than the message source.
Options(t) ==
    [pytz_timezone |-> t.pytz_timezone, military_time |-> t.military_time,
     fancy_times |-> t.fancy_times, support_dev |-> t.support_dev,
     attachment_handler |-> t.attachment_handler]

\* C9 as stated: any two export calls that left every option at its
\* default construct Transcripts with the same options.
C9_DefaultsIdentical ==
    \A c, d \in Calls :
        (/\ kind[c] \in Exports /\ kind[d] \in Exports
         /\ Defaulted(c) /\ Defaulted(d)) =>
            Options(T(c).config) = Options(T(d).config)

\* C9 amended: with every option left at its default, the three entry
\* points pass timezone "UTC", fancy times, the support-dev flag and no
\* attachment handler, and the caller's bot; quick_export and export pass
\* military time and no limit/before/after, raw_export passes
\* military_time False.
C9_DefaultsButMilitaryTime ==
    \A c \in Calls :
        (kind[c] \in Exports /\ Defaulted(c)) =>
            LET t == T(c).config
            IN  /\ t.pytz_timezone = "UTC"
                /\ t.fancy_times = TRUE
                /\ t.support_dev = TRUE
                /\ t.attachment_handler = None
                /\ t.bot = args[c].bot
                /\ t.military_time = (kind[c] # "raw_export")
                /\ kind[c] # "raw_export" =>
                       /\ t.limit = None
                       /\ t.before = None
                       /\ t.after = None

C9_Witness ==
    \E c, d \in Calls :
        /\ kind[c] = "raw_export" /\ Defaulted(c)
        /\ kind[d] = "export" /\ Defaulted(d)
        /\ args[c].bot = Some("bot") /\ args[d].bot = Some("bot")
        /\ T(c).config.military_time = FALSE
        /\ T(d).config.military_time = TRUE

====
